---- MODULE Spec2Model ----
(***************************************************************************)
(* A model of my_std::any (src/unnamed/part_002): a set of `any` objects,  *)
(* the heap of holders they own through std::unique_ptr<placeholder>, and  *)
(* one action per constructor, assignment, modifier and any_cast overload. *)
(* A model of optional<T> (src/unnamed/part_000): a set of optional        *)
(* objects, each a has_value_ flag and a storage_ union, and one action    *)
(* per constructor, assignment, observer and modifier.                     *)
(* A model of project2::string_view (src/Project-2/main.cpp): views, each  *)
(* a data_ pointer and a size_, into one character buffer, and one action  *)
(* per constructor, modifier, accessor, search and comparison.             *)
(***************************************************************************)
EXTENDS Integers, Sequences, FiniteSets, TLC

\* Number of named `any` objects of the client program.
NumAnys == 2
\* Stored values of every type range over 0..MaxVal.
MaxVal == 1
\* Number of named optional<T> objects of the client program.
NumOpts == 2
\* Length of the character buffer the string_views look into.
BufLen == 3
\* Width in bits of string_view::size_type (std::size_t, scaled down).
SizeBits == 3

VARIABLES
    alive,      \* alive[a]: the any object a is within its lifetime
    content,    \* content[a]: the unique_ptr member `content` (NULL or a holder)
    heap,       \* heap[p]: the holder<ValueType> object at address p
    opt,        \* opt[o]: the optional<T> object o (lifetime, has_value_, storage_)
    result,     \* what the last call on an optional returned or threw
    buf,        \* buf[i]: the i-th character of the buffer the views look into
    view,       \* view[x]: the string_view object x (data_, size_)
    ret         \* what the last call on a string_view returned or threw

vars == <<alive, content, heap, opt, result, buf, view, ret>>

-----------------------------------------------------------------------------
(* Objects, addresses, types and values *)

NULL == 0
Tmp == 0                          \* the temporary any of `any(rhs).swap(*this)`
Anys == 1..NumAnys
Slots == {Tmp} \cup Anys
NullOperand == -1                 \* a null `any*` handed to the pointer form
HolderIds == 1..(NumAnys + 1)
Values == 0..MaxVal
NoValue == -1

Types == {"int", "double", "string"}
VoidType == "void"
QualTypes == [base : Types, const : BOOLEAN, ref : {"none", "lref", "rref"}]
Plain(T) == [base |-> T, const |-> FALSE, ref |-> "none"]
\* what a forwarding reference ValueType&& deduces: T, T&, const T&
ArgTypes == {Q \in QualTypes : Q.ref # "rref" /\ (Q.const => Q.ref = "lref")}
\* the targets any_cast<T>(...) is called with: T, T&, const T&, T&&
CastTypes == {Q \in QualTypes : Q.const => Q.ref = "lref"}

FreeCell == [live |-> FALSE, type |-> VoidType, value |-> 0]

\* (mutation of decay_t: the qualified type is used as the holder's type)
decay_t_keeps_qualifiers(Q) ==
    IF Q.const \/ Q.ref # "none" THEN "qualified" ELSE Q.base

decay_t(Q) == Q.base

\* (mutation of remove_cv_ref: only the reference is removed, const stays)
remove_cv_ref_keeps_const(Q) == IF Q.const THEN "qualified" ELSE Q.base

remove_cv_ref(Q) == Q.base
is_reference(Q) == Q.ref # "none"
typeid(Q) == Q.base

\* The program state handed from statement to statement inside one operation,
\* with what the operation did so far: its heap events, the exception it is
\* leaving by, and the pointer/reference (p) or value (v) it returns.
Store == [alive |-> alive, content |-> content, heap |-> heap,
          events |-> <<>>, thrown |-> "none", p |-> NULL, v |-> NoValue]

-----------------------------------------------------------------------------
(* The heap: std::make_unique and the unique_ptr deleter *)

\* operator new: the lowest free address
FreeId(h) ==
    CHOOSE p \in HolderIds : ~h[p].live /\ \A q \in HolderIds : q < p => h[q].live

\* (mutation of make_unique: the holder value-initialises `value`)
make_unique_drops_value(s, T, v, fail) ==
    IF fail
    THEN [s EXCEPT !.thrown = "exception"]
    ELSE LET p == FreeId(s.heap)
         IN [s EXCEPT !.heap[p] = [live |-> TRUE, type |-> T, value |-> 0],
                      !.events = Append(@, <<"new", p>>),
                      !.p = p]

\* std::make_unique<holder<T>>(v): the holder constructor stores v; `fail` is an
\* exception out of operator new or out of the value's copy/move constructor.
make_unique(s, T, v, fail) ==
    IF fail
    THEN [s EXCEPT !.thrown = "exception"]
    ELSE LET p == FreeId(s.heap)
         IN [s EXCEPT !.heap[p] = [live |-> TRUE, type |-> T, value |-> v],
                      !.events = Append(@, <<"new", p>>),
                      !.p = p]

\* ~unique_ptr / unique_ptr::reset on the old pointer: virtual ~placeholder
delete_holder(s, p) ==
    IF p = NULL
    THEN s
    ELSE [s EXCEPT !.heap[p] = FreeCell, !.events = Append(@, <<"delete", p>>)]

\* (mutation of clone: the copy points at the source's holder)
clone_shares_holder(s, p, fail) ==
    IF fail THEN [s EXCEPT !.thrown = "exception"] ELSE [s EXCEPT !.p = p]

\* holder<ValueType>::clone
clone(s, p, fail) == make_unique(s, s.heap[p].type, s.heap[p].value, fail)

\* holder<ValueType>::type
holder_type(s, p) == s.heap[p].type

-----------------------------------------------------------------------------
(* class any: constructors, destructor, modifiers, observers *)

\* constexpr any() noexcept = default
any_default(s, a) == [s EXCEPT !.alive[a] = TRUE, !.content[a] = NULL]

\* (mutation of any_copy: the unique_ptr is copied as a raw pointer)
any_copy_shares_holder(s, a, other, fail) ==
    [s EXCEPT !.alive[a] = TRUE, !.content[a] = s.content[other]]

\* (mutation of any_copy: clone is called through the pointer unconditionally)
any_copy_throws_on_empty(s, a, other, fail) ==
    IF s.content[other] = NULL
    THEN [s EXCEPT !.thrown = "exception"]
    ELSE LET c == clone(s, s.content[other], fail)
         IN IF c.thrown # "none"
            THEN c
            ELSE [c EXCEPT !.alive[a] = TRUE, !.content[a] = c.p]

\* any(const any& other); a constructor that throws leaves no object behind
any_copy(s, a, other, fail) ==
    IF s.content[other] # NULL
    THEN LET c == clone(s, s.content[other], fail)
         IN IF c.thrown # "none"
            THEN c
            ELSE [c EXCEPT !.alive[a] = TRUE, !.content[a] = c.p]
    ELSE any_default(s, a)

\* (mutation of any_move: the source keeps its pointer)
any_move_keeps_source(s, a, other) ==
    [s EXCEPT !.alive[a] = TRUE, !.content[a] = s.content[other]]

\* any(any&& other) noexcept = default: unique_ptr's move constructor
any_move(s, a, other) ==
    LET q == s.content[other]
    IN [s EXCEPT !.alive[a] = TRUE, !.content = [@ EXCEPT ![other] = NULL, ![a] = q]]

\* template any(ValueType&& value)
any_value(s, a, Q, v, fail) ==
    LET m == make_unique(s, decay_t(Q), v, fail)
    IN IF m.thrown # "none"
       THEN m
       ELSE [m EXCEPT !.alive[a] = TRUE, !.content[a] = m.p]

\* (mutation of any_dtor: the holder is released instead of deleted)
any_dtor_leaks(s, a) ==
    [s EXCEPT !.alive[a] = FALSE, !.content[a] = NULL]

\* ~any() = default
any_dtor(s, a) ==
    LET d == delete_holder(s, s.content[a])
    IN [d EXCEPT !.alive[a] = FALSE, !.content[a] = NULL]

\* (mutation of swap: a plain assignment of the pointer instead of an exchange)
swap_overwrites(s, a, other) ==
    [s EXCEPT !.content[a] = s.content[other]]

\* (mutation of swap: the held values are exchanged, not the pointers)
swap_exchanges_values(s, a, other) ==
    LET p == s.content[a]
        q == s.content[other]
    IN IF p # NULL /\ q # NULL
       THEN [s EXCEPT !.heap = [@ EXCEPT ![p] = s.heap[q], ![q] = s.heap[p]],
                      !.events = @ \o << <<"move", p>>, <<"move", q>> >>]
       ELSE [s EXCEPT !.content = [@ EXCEPT ![a] = q, ![other] = p]]

\* void swap(any& other) noexcept
swap(s, a, other) ==
    [s EXCEPT !.content = [@ EXCEPT ![a] = s.content[other], ![other] = s.content[a]]]

\* (mutation of reset: the holder is deleted, the pointer is not nulled)
reset_keeps_pointer(s, a) == delete_holder(s, s.content[a])

\* (mutation of reset: the holder is destroyed through a null pointer too)
reset_throws_when_empty(s, a) ==
    IF s.content[a] = NULL
    THEN [s EXCEPT !.thrown = "exception"]
    ELSE delete_holder([s EXCEPT !.content[a] = NULL], s.content[a])

\* void reset() noexcept: unique_ptr::reset nulls the pointer, then deletes
reset(s, a) ==
    delete_holder([s EXCEPT !.content[a] = NULL], s.content[a])

\* (mutation of assign_copy: the old value is released before rhs is cloned)
assign_copy_resets_first(s, a, rhs, fail) ==
    LET r == reset(s, a)
    IN IF r.content[rhs] = NULL
       THEN r
       ELSE LET c == clone(r, r.content[rhs], fail)
            IN IF c.thrown # "none" THEN c ELSE [c EXCEPT !.content[a] = c.p]

\* any& operator=(const any& rhs)
assign_copy(s, a, rhs, fail) ==
    LET t == any_copy(s, Tmp, rhs, fail)
    IN IF t.thrown # "none" THEN t ELSE any_dtor(swap(t, Tmp, a), Tmp)

\* (mutation of assign_move: the target is reset, then takes rhs's pointer)
assign_move_resets_target(s, a, rhs) ==
    LET r == reset(s, a)
    IN [r EXCEPT !.content = [@ EXCEPT ![rhs] = NULL, ![a] = r.content[rhs]]]

\* any& operator=(any&& rhs) noexcept
assign_move(s, a, rhs) == any_dtor(swap(any_move(s, Tmp, rhs), Tmp, a), Tmp)

\* (mutation of assign_value: the held value is released, then the new one built)
assign_value_resets_first(s, a, Q, v, fail) ==
    LET r == reset(s, a)
        t == any_value(r, Tmp, Q, v, fail)
    IN IF t.thrown # "none" THEN t ELSE any_dtor(swap(t, Tmp, a), Tmp)

\* template any& operator=(ValueType&& rhs)
assign_value(s, a, Q, v, fail) ==
    LET t == any_value(s, Tmp, Q, v, fail)
    IN IF t.thrown # "none" THEN t ELSE any_dtor(swap(t, Tmp, a), Tmp)

\* bool has_value() const noexcept
has_value(s, a) == s.content[a] # NULL

\* (mutation of type: an empty any reports typeid(int))
type_of_empty_is_int(s, a) ==
    IF s.content[a] = NULL THEN "int" ELSE holder_type(s, s.content[a])

\* const std::type_info& type() const noexcept
type(s, a) == IF s.content[a] = NULL THEN VoidType ELSE holder_type(s, s.content[a])

\* inline void swap(any& lhs, any& rhs) noexcept
nonmember_swap(s, lhs, rhs) == swap(s, lhs, rhs)

-----------------------------------------------------------------------------
(* any_cast *)

\* (mutation of any_cast_ptr: the typeid comparison is left out)
any_cast_ptr_unchecked(s, operand, Q) ==
    IF operand = NullOperand THEN [s EXCEPT !.p = NULL] ELSE [s EXCEPT !.p = s.content[operand]]

\* template<T> T* any_cast(any* operand) noexcept, and the const any* overload:
\* the address of holder->value, named by the holder's address
any_cast_ptr(s, operand, Q) ==
    IF operand = NullOperand \/ type(s, operand) # typeid(Q)
    THEN [s EXCEPT !.p = NULL]
    ELSE [s EXCEPT !.p = s.content[operand]]

\* template<T> T any_cast(const any& operand)
any_cast_const(s, operand, Q) ==
    LET value_type == remove_cv_ref(Q)
        res == any_cast_ptr(s, operand, Plain(value_type)).p
    IN IF res = NULL
       THEN [s EXCEPT !.thrown = "bad_any_cast"]
       ELSE IF is_reference(Q)
            THEN [s EXCEPT !.p = res]
            ELSE [s EXCEPT !.v = s.heap[res].value]

\* template<T> T any_cast(any& operand)
any_cast_mut(s, operand, Q) ==
    LET value_type == remove_cv_ref(Q)
        res == any_cast_ptr(s, operand, Plain(value_type)).p
    IN IF res = NULL
       THEN [s EXCEPT !.thrown = "bad_any_cast"]
       ELSE IF is_reference(Q)
            THEN [s EXCEPT !.p = res]
            ELSE [s EXCEPT !.v = s.heap[res].value]

\* What a value is left as once it was moved from: a scalar keeps its value, a
\* std::string is left valid but unspecified (mv).
moved_from(T, v, mv) == IF T = "string" THEN mv ELSE v

\* The states a moved-from value may be left in when T is the cast's target.
MovedFromStates(Q) ==
    IF is_reference(Q) \/ remove_cv_ref(Q) # "string" THEN {0} ELSE Values

\* (mutation of any_cast_rvalue: the value is taken out with its holder)
any_cast_rvalue_releases(s, operand, Q, mv) ==
    LET value_type == remove_cv_ref(Q)
        res == any_cast_ptr(s, operand, Plain(value_type)).p
    IN IF res = NULL
       THEN [s EXCEPT !.thrown = "bad_any_cast"]
       ELSE IF is_reference(Q)
            THEN [s EXCEPT !.p = res]
            ELSE reset([s EXCEPT !.v = s.heap[res].value], operand)

\* template<T> T any_cast(any&& operand)
any_cast_rvalue(s, operand, Q, mv) ==
    LET value_type == remove_cv_ref(Q)
        res == any_cast_ptr(s, operand, Plain(value_type)).p
    IN IF res = NULL
       THEN [s EXCEPT !.thrown = "bad_any_cast"]
       ELSE IF is_reference(Q)
            THEN [s EXCEPT !.p = res]
            ELSE [s EXCEPT !.v = s.heap[res].value,
                           !.heap[res].value = moved_from(value_type, @, mv)]

\* any_cast<T&>(a) = v: the reference any_cast(any&) returns is holder->value
write_through(s, operand, T, v) ==
    LET r == any_cast_mut(s, operand, [base |-> T, const |-> FALSE, ref |-> "lref"])
    IN IF r.thrown # "none" THEN r ELSE [r EXCEPT !.heap[r.p].value = v]

-----------------------------------------------------------------------------
(* class optional<T>: storage, constructors, destructor, assignment,       *)
(* observers, modifiers                                                    *)

Opts == 1..NumOpts
\* union optional_storage: the member `dummy` is active, there is no T
Dummy == NoValue
\* the ref-qualified overloads of value()
ValueOverloads == {"&", "const&", "&&", "const&&"}
\* an optional outside its lifetime
NoOptional == [alive |-> FALSE, has_value_ |-> FALSE, storage_ |-> Dummy]

\* The optionals as an operation finds them; an operation adds to `events`
\* what it does to T objects, and records what it throws or returns.
OptStore == [opt |-> opt, events |-> <<>>, thrown |-> "none", v |-> NoValue]

\* new (&storage_.value) T(v)
construct_at(s, o, v) ==
    [s EXCEPT !.opt[o].storage_ = v, !.events = Append(@, <<"construct", o>>)]

\* storage_.value = v
assign_to(s, o, v) ==
    [s EXCEPT !.opt[o].storage_ = v, !.events = Append(@, <<"assign", o>>)]

\* storage_.value.~T()
destroy_at(s, o) ==
    [s EXCEPT !.opt[o].storage_ = Dummy, !.events = Append(@, <<"destroy", o>>)]

\* the T of o after T's move constructor or move assignment took its value:
\* valid, with a value mv that T's move leaves (itself for a scalar T)
moved_out(s, o, mv) == [s EXCEPT !.opt[o].storage_ = mv]

\* constexpr optional() noexcept
optional_default(s, o) ==
    [s EXCEPT !.opt[o] = [alive |-> TRUE, has_value_ |-> FALSE, storage_ |-> Dummy]]

\* constexpr optional(nullopt_t) noexcept
optional_nullopt(s, o) ==
    [s EXCEPT !.opt[o] = [alive |-> TRUE, has_value_ |-> FALSE, storage_ |-> Dummy]]

\* optional(const optional& other)
optional_copy(s, o, other) ==
    LET i == [s EXCEPT !.opt[o] = [alive |-> TRUE,
                                   has_value_ |-> s.opt[other].has_value_,
                                   storage_ |-> Dummy]]
    IN IF s.opt[other].has_value_
       THEN construct_at(i, o, s.opt[other].storage_)
       ELSE i

\* optional(optional&& other)
optional_move(s, o, other, mv) ==
    LET i == [s EXCEPT !.opt[o] = [alive |-> TRUE,
                                   has_value_ |-> s.opt[other].has_value_,
                                   storage_ |-> Dummy]]
    IN IF s.opt[other].has_value_
       THEN moved_out(construct_at(i, o, s.opt[other].storage_), other, mv)
       ELSE i

\* template constexpr optional(U&& value)
optional_from_value(s, o, v) ==
    construct_at([s EXCEPT !.opt[o] = [alive |-> TRUE, has_value_ |-> TRUE,
                                       storage_ |-> Dummy]], o, v)

\* the values of a U that converts to T by truncation, in halves of a T
UValues == 0..(2 * MaxVal + 1)
\* T(*other): the converting constructor's conversion from U
T_from_U(u) == u \div 2
\* what a const optional<U>& refers to: an empty or an engaged optional<U>
ConvertingSources ==
    {[has_value_ |-> FALSE, value |-> NoValue]} \cup
        {[has_value_ |-> TRUE, value |-> u] : u \in UValues}

\* template optional(const optional<U>& other): there is no member
\* initializer, so storage_ is default constructed (dummy) and has_value_ is
\* left uninitialized: it reads as `garbage` unless the body sets it; the body
\* assigns to storage_.value, where no T has been constructed
optional_converting(s, o, other, garbage) ==
    LET i == [s EXCEPT !.opt[o] = [alive |-> TRUE, has_value_ |-> garbage,
                                   storage_ |-> Dummy]]
    IN IF other.has_value_
       THEN [assign_to(i, o, T_from_U(other.value)) EXCEPT !.opt[o].has_value_ = TRUE]
       ELSE i

\* template constexpr explicit optional(in_place_t, Args&&... args): v is T(args...)
optional_in_place(s, o, v) ==
    construct_at([s EXCEPT !.opt[o] = [alive |-> TRUE, has_value_ |-> TRUE,
                                       storage_ |-> Dummy]], o, v)

\* ~optional() noexcept
optional_dtor(s, o) ==
    LET d == IF s.opt[o].has_value_ THEN destroy_at(s, o) ELSE s
    IN [d EXCEPT !.opt[o] = NoOptional]

\* void reset() noexcept
optional_reset(s, o) ==
    IF s.opt[o].has_value_
    THEN [destroy_at(s, o) EXCEPT !.opt[o].has_value_ = FALSE]
    ELSE s

\* (mutation of optional_assign_copy: the T is constructed, the flag not set)
optional_assign_copy_keeps_flag(s, o, other) ==
    IF o # other
    THEN IF s.opt[o].has_value_ /\ s.opt[other].has_value_
         THEN assign_to(s, o, s.opt[other].storage_)
         ELSE IF s.opt[other].has_value_
              THEN construct_at(s, o, s.opt[other].storage_)
              ELSE optional_reset(s, o)
    ELSE s

\* optional& operator=(const optional& other)
optional_assign_copy(s, o, other) ==
    IF o # other
    THEN IF s.opt[o].has_value_ /\ s.opt[other].has_value_
         THEN assign_to(s, o, s.opt[other].storage_)
         ELSE IF s.opt[other].has_value_
              THEN [construct_at(s, o, s.opt[other].storage_)
                      EXCEPT !.opt[o].has_value_ = TRUE]
              ELSE optional_reset(s, o)
    ELSE s

\* optional& operator=(optional&& other)
optional_assign_move(s, o, other, mv) ==
    IF o # other
    THEN IF s.opt[o].has_value_ /\ s.opt[other].has_value_
         THEN moved_out(assign_to(s, o, s.opt[other].storage_), other, mv)
         ELSE IF s.opt[other].has_value_
              THEN [moved_out(construct_at(s, o, s.opt[other].storage_), other, mv)
                      EXCEPT !.opt[o].has_value_ = TRUE]
              ELSE optional_reset(s, o)
    ELSE s

\* optional& operator=(nullopt_t) noexcept
optional_assign_nullopt(s, o) == optional_reset(s, o)

\* template optional& operator=(U&& value)
optional_assign_value(s, o, v) ==
    IF s.opt[o].has_value_
    THEN assign_to(s, o, v)
    ELSE [construct_at(s, o, v) EXCEPT !.opt[o].has_value_ = TRUE]

\* constexpr T& operator*() & noexcept (and the other three overloads)
optional_deref(s, o) == s.opt[o].storage_

\* constexpr bool has_value() const noexcept
optional_has_value(s, o) == s.opt[o].has_value_

\* (mutation of optional_value: no check of has_value_, as operator*)
optional_value_unchecked(s, o, q) == [s EXCEPT !.v = s.opt[o].storage_]

\* constexpr T& value() &, const T& value() const&, T&& value() &&,
\* const T&& value() const&&: the four bodies differ in the reference returned
optional_value(s, o, q) ==
    IF ~s.opt[o].has_value_
    THEN [s EXCEPT !.thrown = "bad_optional_access"]
    ELSE [s EXCEPT !.v = s.opt[o].storage_]

\* std::swap(storage_.value, other.storage_.value)
swap_values(s, o, other) ==
    [s EXCEPT !.opt = [@ EXCEPT ![o].storage_ = s.opt[other].storage_,
                                ![other].storage_ = s.opt[o].storage_]]

\* (mutation of optional_swap: an engaged optional copies into an empty one)
optional_swap_one_way(s, o, other) ==
    IF s.opt[o].has_value_ /\ s.opt[other].has_value_
    THEN swap_values(s, o, other)
    ELSE IF s.opt[o].has_value_
         THEN [construct_at(s, other, s.opt[o].storage_)
                 EXCEPT !.opt[other].has_value_ = TRUE]
         ELSE IF s.opt[other].has_value_
              THEN [construct_at(s, o, s.opt[other].storage_)
                      EXCEPT !.opt[o].has_value_ = TRUE]
              ELSE s

\* void optional::swap(optional& other)
optional_swap(s, o, other) ==
    IF s.opt[o].has_value_ /\ s.opt[other].has_value_
    THEN swap_values(s, o, other)
    ELSE IF s.opt[o].has_value_
         THEN LET c == construct_at(s, other, s.opt[o].storage_)
                  d == destroy_at(c, o)
              IN [d EXCEPT !.opt = [@ EXCEPT ![other].has_value_ = TRUE,
                                             ![o].has_value_ = FALSE]]
         ELSE IF s.opt[other].has_value_
              THEN LET c == construct_at(s, o, s.opt[other].storage_)
                       d == destroy_at(c, other)
                   IN [d EXCEPT !.opt = [@ EXCEPT ![o].has_value_ = TRUE,
                                                  ![other].has_value_ = FALSE]]
              ELSE s

\* (mutation of optional_emplace: the new T is constructed over the old one)
optional_emplace_no_reset(s, o, v) ==
    [construct_at(s, o, v) EXCEPT !.opt[o].has_value_ = TRUE, !.v = v]

\* template T& emplace(Args&&... args): v is T(args...)
optional_emplace(s, o, v) ==
    LET r == optional_reset(s, o)
        c == construct_at(r, o, v)
    IN [c EXCEPT !.opt[o].has_value_ = TRUE, !.v = c.opt[o].storage_]

\* operator==(const optional<T>&, const optional<T>&)
optional_eq(s, lhs, rhs) ==
    IF optional_has_value(s, lhs) # optional_has_value(s, rhs)
    THEN FALSE
    ELSE IF ~optional_has_value(s, lhs)
         THEN TRUE
         ELSE optional_deref(s, lhs) = optional_deref(s, rhs)

\* operator!=(const optional<T>&, const optional<T>&)
optional_ne(s, lhs, rhs) == ~optional_eq(s, lhs, rhs)

\* (mutation of optional_lt: the two emptiness tests in the other order)
optional_lt_tests_lhs_first(s, lhs, rhs) ==
    IF ~optional_has_value(s, lhs)
    THEN TRUE
    ELSE IF ~optional_has_value(s, rhs)
         THEN FALSE
         ELSE optional_deref(s, lhs) < optional_deref(s, rhs)

\* operator<(const optional<T>&, const optional<T>&)
optional_lt(s, lhs, rhs) ==
    IF ~optional_has_value(s, rhs)
    THEN FALSE
    ELSE IF ~optional_has_value(s, lhs)
         THEN TRUE
         ELSE optional_deref(s, lhs) < optional_deref(s, rhs)

\* operator<=(const optional<T>&, const optional<T>&)
optional_le(s, lhs, rhs) ==
    IF ~optional_has_value(s, lhs)
    THEN TRUE
    ELSE IF ~optional_has_value(s, rhs)
         THEN FALSE
         ELSE optional_deref(s, lhs) <= optional_deref(s, rhs)

\* operator>(const optional<T>&, const optional<T>&)
optional_gt(s, lhs, rhs) ==
    IF ~optional_has_value(s, lhs)
    THEN FALSE
    ELSE IF ~optional_has_value(s, rhs)
         THEN TRUE
         ELSE optional_deref(s, lhs) > optional_deref(s, rhs)

\* operator>=(const optional<T>&, const optional<T>&)
optional_ge(s, lhs, rhs) ==
    IF ~optional_has_value(s, rhs)
    THEN TRUE
    ELSE IF ~optional_has_value(s, lhs)
         THEN FALSE
         ELSE optional_deref(s, lhs) >= optional_deref(s, rhs)

\* the six relational operators, by name
Relations == {"==", "!=", "<", "<=", ">", ">="}
optional_compare(s, rel, lhs, rhs) ==
    CASE rel = "==" -> optional_eq(s, lhs, rhs)
      [] rel = "!=" -> optional_ne(s, lhs, rhs)
      [] rel = "<" -> optional_lt(s, lhs, rhs)
      [] rel = "<=" -> optional_le(s, lhs, rhs)
      [] rel = ">" -> optional_gt(s, lhs, rhs)
      [] rel = ">=" -> optional_ge(s, lhs, rhs)

-----------------------------------------------------------------------------
(* class project2::string_view *)

\* the string_view objects of the client program
Views == {"sv1", "sv2"}
\* the values of char the buffer holds, as unsigned char ('a', 'b')
Chars == {97, 98}
Buffers == [1..BufLen -> Chars]

\* size_type: arithmetic is modulo 2^SizeBits
SizeMod == 2 ^ SizeBits
size_add(a, b) == (a + b) % SizeMod
size_sub(a, b) == (a - b + SizeMod) % SizeMod
\* static constexpr size_type npos = static_cast<size_type>(-1)
npos == size_sub(0, 1)
\* the size_type arguments the operations are called with
SizeArgs == 0..(BufLen + 1) \cup {npos}

\* const char*: nullptr, or the address of buf[p + 1] (p = BufLen is one past
\* the end)
nullptr == -1
Pointers == {nullptr} \cup 0..BufLen
ptr_add(p, n) == IF p = nullptr /\ n = 0 THEN nullptr ELSE p + n
\* *p
char_at(b, p) == b[p + 1]
\* std::min
min(a, b) == IF b < a THEN b ELSE a

\* std::memcmp(p, q, n): the difference of the first two bytes that differ
RECURSIVE memcmp(_, _, _, _)
memcmp(b, p, q, n) ==
    IF n = 0
    THEN 0
    ELSE IF char_at(b, p) # char_at(b, q)
         THEN char_at(b, p) - char_at(b, q)
         ELSE memcmp(b, p + 1, q + 1, n - 1)

\* std::memchr(p, c, n): the first of the n bytes at p that is c, or nullptr
RECURSIVE memchr(_, _, _, _)
memchr(b, p, c, n) ==
    IF n = 0
    THEN nullptr
    ELSE IF char_at(b, p) = c THEN p ELSE memchr(b, p + 1, c, n - 1)

\* constexpr string_view() noexcept
string_view_default == [data_ |-> nullptr, size_ |-> 0]
\* constexpr string_view(const char* s, size_type count)
string_view_ptr_count(s, count) == [data_ |-> s, size_ |-> count]
\* string_view(const std::string& s) noexcept: s owns the buffer
string_view_string == [data_ |-> 0, size_ |-> BufLen]

\* constexpr const_reference at(size_type pos) const
at(b, v, pos) ==
    IF pos >= v.size_
    THEN [thrown |-> "out_of_range", v |-> 0]
    ELSE [thrown |-> "none", v |-> char_at(b, ptr_add(v.data_, pos))]

\* (mutation of remove_prefix: n is not clamped to size_)
remove_prefix_unclamped(v, n) ==
    [data_ |-> ptr_add(v.data_, n), size_ |-> size_sub(v.size_, n)]

\* constexpr void remove_prefix(size_type n) noexcept
remove_prefix(v, n) ==
    LET m == IF n > v.size_ THEN v.size_ ELSE n
    IN [data_ |-> ptr_add(v.data_, m), size_ |-> size_sub(v.size_, m)]

\* constexpr void remove_suffix(size_type n) noexcept
remove_suffix(v, n) ==
    IF n > v.size_
    THEN [v EXCEPT !.size_ = 0]
    ELSE [v EXCEPT !.size_ = size_sub(@, n)]

\* (mutation of substr: pos == size() is rejected too)
substr_rejects_end(v, pos, count) ==
    IF pos >= v.size_
    THEN [thrown |-> "out_of_range", view |-> string_view_default]
    ELSE LET rcount == min(count, size_sub(v.size_, pos))
         IN [thrown |-> "none",
             view |-> string_view_ptr_count(ptr_add(v.data_, pos), rcount)]

\* constexpr string_view substr(size_type pos, size_type count) const
substr(v, pos, count) ==
    IF pos > v.size_
    THEN [thrown |-> "out_of_range", view |-> string_view_default]
    ELSE LET rcount == min(count, size_sub(v.size_, pos))
         IN [thrown |-> "none",
             view |-> string_view_ptr_count(ptr_add(v.data_, pos), rcount)]

\* (mutation of compare: the sizes are not compared after the common prefix)
compare_ignores_size(b, v, other) ==
    memcmp(b, v.data_, other.data_, min(v.size_, other.size_))

\* int compare(string_view other) const noexcept
compare(b, v, other) ==
    LET r == min(v.size_, other.size_)
        cmp == memcmp(b, v.data_, other.data_, r)
    IN IF cmp # 0
       THEN cmp
       ELSE IF v.size_ < other.size_
            THEN -1
            ELSE IF v.size_ > other.size_ THEN 1 ELSE 0

\* size_type find(char c, size_type pos) const noexcept
find_char(b, v, c, pos) ==
    IF pos >= v.size_
    THEN npos
    ELSE LET p == memchr(b, ptr_add(v.data_, pos), c, size_sub(v.size_, pos))
         IN IF p = nullptr THEN npos ELSE p - v.data_

\* for (size_type i = pos; i + count <= size_; ++i) of find
RECURSIVE find_loop(_, _, _, _, _)
find_loop(b, v, s, count, i) ==
    IF size_add(i, count) <= v.size_
    THEN IF memcmp(b, ptr_add(v.data_, i), s, count) = 0
         THEN i
         ELSE find_loop(b, v, s, count, size_add(i, 1))
    ELSE npos

\* size_type find(const char* s, size_type pos, size_type count) const noexcept
find_ptr_count(b, v, s, pos, count) ==
    IF s = nullptr
    THEN npos
    ELSE IF count = 0
         THEN IF pos <= v.size_ THEN pos ELSE npos
         ELSE IF pos > v.size_ \/ count > size_sub(v.size_, pos)
              THEN npos
              ELSE find_loop(b, v, s, count, pos)

\* size_type find(string_view sv, size_type pos) const noexcept
find(b, v, sv, pos) == find_ptr_count(b, v, sv.data_, pos, sv.size_)

\* for (;; --i) of rfind(char, size_type)
RECURSIVE rfind_char_loop(_, _, _, _)
rfind_char_loop(b, v, c, i) ==
    IF char_at(b, ptr_add(v.data_, i)) = c
    THEN i
    ELSE IF i = 0 THEN npos ELSE rfind_char_loop(b, v, c, size_sub(i, 1))

\* size_type rfind(char c, size_type pos) const noexcept
rfind_char(b, v, c, pos) ==
    IF v.size_ = 0
    THEN npos
    ELSE rfind_char_loop(b, v, c, IF pos >= v.size_ THEN size_sub(v.size_, 1) ELSE pos)

\* for (size_type i = limit + 1; i > 0; --i) of rfind(string_view, size_type)
RECURSIVE rfind_loop(_, _, _, _)
rfind_loop(b, v, sv, i) ==
    IF i > 0
    THEN LET j == size_sub(i, 1)
         IN IF memcmp(b, ptr_add(v.data_, j), sv.data_, sv.size_) = 0
            THEN j
            ELSE rfind_loop(b, v, sv, size_sub(i, 1))
    ELSE npos

\* (mutation of rfind: the search starts at the last position whatever pos is)
rfind_ignores_pos(b, v, sv, pos) ==
    IF sv.size_ > v.size_
    THEN npos
    ELSE rfind_loop(b, v, sv, size_add(size_sub(v.size_, sv.size_), 1))

\* size_type rfind(string_view sv, size_type pos) const noexcept
rfind(b, v, sv, pos) ==
    IF sv.size_ > v.size_
    THEN npos
    ELSE LET limit == IF pos >= v.size_
                      THEN size_sub(v.size_, sv.size_)
                      ELSE min(pos, size_sub(v.size_, sv.size_))
         IN rfind_loop(b, v, sv, size_add(limit, 1))

\* operator==(const string_view&, const string_view&)
string_view_eq(b, x, y) ==
    x.size_ = y.size_ /\ (x.size_ = 0 \/ memcmp(b, x.data_, y.data_, x.size_) = 0)

\* operator!=, operator<, operator<=, operator>, operator>=
string_view_ne(b, x, y) == ~string_view_eq(b, x, y)
string_view_lt(b, x, y) == compare(b, x, y) < 0
string_view_le(b, x, y) == compare(b, x, y) <= 0
string_view_gt(b, x, y) == compare(b, x, y) > 0
string_view_ge(b, x, y) == compare(b, x, y) >= 0

string_view_compare(b, rel, x, y) ==
    CASE rel = "==" -> string_view_eq(b, x, y)
      [] rel = "!=" -> string_view_ne(b, x, y)
      [] rel = "<" -> string_view_lt(b, x, y)
      [] rel = "<=" -> string_view_le(b, x, y)
      [] rel = ">" -> string_view_gt(b, x, y)
      [] rel = ">=" -> string_view_ge(b, x, y)

\* void swap(string_view& other) noexcept, on the views x and y of vw
string_view_swap(vw, x, y) == [vw EXCEPT ![x] = vw[y], ![y] = vw[x]]

-----------------------------------------------------------------------------
(* The state machine *)

Init ==
    /\ alive = [a \in Slots |-> FALSE]
    /\ content = [a \in Slots |-> NULL]
    /\ heap = [p \in HolderIds |-> FreeCell]
    /\ opt = [o \in Opts |-> NoOptional]
    /\ result = [op |-> "none", thrown |-> "none", v |-> NoValue]
    /\ buf = [i \in 1..BufLen |-> 97]
    /\ view = [x \in Views |-> string_view_default]
    /\ ret = [thrown |-> "none", v |-> 0]

\* An operation returns (or throws): its effects become the program state. What
\* it returned or threw (s.p, s.v, s.thrown) goes to the caller.
Return(s) ==
    /\ alive' = s.alive
    /\ content' = s.content
    /\ heap' = s.heap
    /\ UNCHANGED <<opt, result, buf, view, ret>>

DefaultConstruct(a) ==
    /\ ~alive[a]
    /\ Return(any_default(Store, a))

CopyConstruct(a, other, fail) ==
    /\ ~alive[a] /\ alive[other]
    /\ Return(any_copy(Store, a, other, fail))

MoveConstruct(a, other) ==
    /\ ~alive[a] /\ alive[other]
    /\ Return(any_move(Store, a, other))

ValueConstruct(a, Q, v, fail) ==
    /\ ~alive[a]
    /\ Return(any_value(Store, a, Q, v, fail))

Destroy(a) ==
    /\ alive[a]
    /\ Return(any_dtor(Store, a))

CopyAssign(a, rhs, fail) ==
    /\ alive[a] /\ alive[rhs]
    /\ Return(assign_copy(Store, a, rhs, fail))

MoveAssign(a, rhs) ==
    /\ alive[a] /\ alive[rhs]
    /\ Return(assign_move(Store, a, rhs))

ValueAssign(a, Q, v, fail) ==
    /\ alive[a]
    /\ Return(assign_value(Store, a, Q, v, fail))

Reset(a) ==
    /\ alive[a]
    /\ Return(reset(Store, a))

Swap(a, other) ==
    /\ alive[a] /\ alive[other]
    /\ Return(swap(Store, a, other))

NonMemberSwap(lhs, rhs) ==
    /\ alive[lhs] /\ alive[rhs]
    /\ Return(nonmember_swap(Store, lhs, rhs))

AnyCastPtr(operand, T) ==
    /\ operand \in Anys => alive[operand]
    /\ Return(any_cast_ptr(Store, operand, Plain(T)))

AnyCastConst(operand, Q) ==
    /\ alive[operand]
    /\ Return(any_cast_const(Store, operand, Q))

AnyCastMut(operand, Q) ==
    /\ alive[operand]
    /\ Return(any_cast_mut(Store, operand, Q))

AnyCastRvalue(operand, Q, mv) ==
    /\ alive[operand]
    /\ mv \in MovedFromStates(Q)
    /\ Return(any_cast_rvalue(Store, operand, Q, mv))

WriteThrough(operand, T, v) ==
    /\ alive[operand]
    /\ Return(write_through(Store, operand, T, v))

Next ==
    \/ \E a \in Anys : DefaultConstruct(a)
    \/ \E a, other \in Anys, fail \in BOOLEAN : CopyConstruct(a, other, fail)
    \/ \E a, other \in Anys : MoveConstruct(a, other)
    \/ \E a \in Anys, Q \in ArgTypes, v \in Values, fail \in BOOLEAN :
          ValueConstruct(a, Q, v, fail)
    \/ \E a \in Anys : Destroy(a)
    \/ \E a, rhs \in Anys, fail \in BOOLEAN : CopyAssign(a, rhs, fail)
    \/ \E a, rhs \in Anys : MoveAssign(a, rhs)
    \/ \E a \in Anys, Q \in ArgTypes, v \in Values, fail \in BOOLEAN :
          ValueAssign(a, Q, v, fail)
    \/ \E a \in Anys : Reset(a)
    \/ \E a, other \in Anys : Swap(a, other)
    \/ \E lhs, rhs \in Anys : NonMemberSwap(lhs, rhs)
    \/ \E operand \in Anys \cup {NullOperand}, T \in Types : AnyCastPtr(operand, T)
    \/ \E operand \in Anys, Q \in CastTypes : AnyCastConst(operand, Q)
    \/ \E operand \in Anys, Q \in CastTypes : AnyCastMut(operand, Q)
    \/ \E operand \in Anys, Q \in CastTypes, mv \in Values :
          AnyCastRvalue(operand, Q, mv)
    \/ \E operand \in Anys, T \in Types, v \in Values : WriteThrough(operand, T, v)

Spec == Init /\ [][Next]_vars

\* A call on an optional returns (or throws): its effects become the program
\* state, and what it returned or threw is kept as the last call's result.
OptReturn(op, s) ==
    /\ opt' = s.opt
    /\ result' = [op |-> op, thrown |-> s.thrown, v |-> s.v]
    /\ UNCHANGED <<alive, content, heap, buf, view, ret>>

OptDefaultConstruct(o) ==
    /\ ~opt[o].alive
    /\ OptReturn("optional()", optional_default(OptStore, o))

OptNulloptConstruct(o) ==
    /\ ~opt[o].alive
    /\ OptReturn("optional(nullopt)", optional_nullopt(OptStore, o))

OptCopyConstruct(o, other) ==
    /\ ~opt[o].alive /\ opt[other].alive
    /\ OptReturn("optional(const optional&)", optional_copy(OptStore, o, other))

OptMoveConstruct(o, other, mv) ==
    /\ ~opt[o].alive /\ opt[other].alive
    /\ OptReturn("optional(optional&&)", optional_move(OptStore, o, other, mv))

OptValueConstruct(o, v) ==
    /\ ~opt[o].alive
    /\ OptReturn("optional(U&&)", optional_from_value(OptStore, o, v))

OptDestroy(o) ==
    /\ opt[o].alive
    /\ OptReturn("~optional()", optional_dtor(OptStore, o))

OptCopyAssign(o, other) ==
    /\ opt[o].alive /\ opt[other].alive
    /\ OptReturn("operator=(const optional&)", optional_assign_copy(OptStore, o, other))

OptMoveAssign(o, other, mv) ==
    /\ opt[o].alive /\ opt[other].alive
    /\ OptReturn("operator=(optional&&)", optional_assign_move(OptStore, o, other, mv))

OptNulloptAssign(o) ==
    /\ opt[o].alive
    /\ OptReturn("operator=(nullopt_t)", optional_assign_nullopt(OptStore, o))

OptValueAssign(o, v) ==
    /\ opt[o].alive
    /\ OptReturn("operator=(U&&)", optional_assign_value(OptStore, o, v))

OptValue(o, q) ==
    /\ opt[o].alive
    /\ OptReturn("value", optional_value(OptStore, o, q))

OptSwap(o, other) ==
    /\ opt[o].alive /\ opt[other].alive
    /\ OptReturn("swap", optional_swap(OptStore, o, other))

OptReset(o) ==
    /\ opt[o].alive
    /\ OptReturn("reset", optional_reset(OptStore, o))

OptConvertingConstruct(o, other, garbage) ==
    /\ ~opt[o].alive
    /\ OptReturn("optional(const optional<U>&)",
                 optional_converting(OptStore, o, other, garbage))

OptInPlaceConstruct(o, v) ==
    /\ ~opt[o].alive
    /\ OptReturn("optional(in_place_t, Args&&...)", optional_in_place(OptStore, o, v))

OptEmplace(o, v) ==
    /\ opt[o].alive
    /\ OptReturn("emplace", optional_emplace(OptStore, o, v))

\* a relational operator returns a bool, kept as 0 or 1
OptCompare(rel, lhs, rhs) ==
    /\ opt[lhs].alive /\ opt[rhs].alive
    /\ OptReturn(rel, [OptStore EXCEPT
                         !.v = IF optional_compare(OptStore, rel, lhs, rhs) THEN 1 ELSE 0])

NextOptional ==
    \/ \E o \in Opts : OptDefaultConstruct(o)
    \/ \E o \in Opts : OptNulloptConstruct(o)
    \/ \E o, other \in Opts : OptCopyConstruct(o, other)
    \/ \E o, other \in Opts, mv \in Values : OptMoveConstruct(o, other, mv)
    \/ \E o \in Opts, v \in Values : OptValueConstruct(o, v)
    \/ \E o \in Opts : OptDestroy(o)
    \/ \E o, other \in Opts : OptCopyAssign(o, other)
    \/ \E o, other \in Opts, mv \in Values : OptMoveAssign(o, other, mv)
    \/ \E o \in Opts : OptNulloptAssign(o)
    \/ \E o \in Opts, v \in Values : OptValueAssign(o, v)
    \/ \E o \in Opts, q \in ValueOverloads : OptValue(o, q)
    \/ \E o, other \in Opts : OptSwap(o, other)
    \/ \E o \in Opts : OptReset(o)
    \/ \E rel \in Relations, lhs, rhs \in Opts : OptCompare(rel, lhs, rhs)
    \/ \E o \in Opts, v \in Values : OptEmplace(o, v)
    \/ \E o \in Opts, other \in ConvertingSources, garbage \in BOOLEAN :
          OptConvertingConstruct(o, other, garbage)
    \/ \E o \in Opts, v \in Values : OptInPlaceConstruct(o, v)

SpecOptional == Init /\ [][NextOptional]_vars

\* The views are default constructed and the buffer holds any text.
InitView ==
    /\ alive = [a \in Slots |-> FALSE]
    /\ content = [a \in Slots |-> NULL]
    /\ heap = [p \in HolderIds |-> FreeCell]
    /\ opt = [o \in Opts |-> NoOptional]
    /\ result = [op |-> "none", thrown |-> "none", v |-> NoValue]
    /\ buf \in Buffers
    /\ view = [x \in Views |-> string_view_default]
    /\ ret = [thrown |-> "none", v |-> 0]

\* A call on a string_view returns v (or throws): the views become vw.
ViewReturn(vw, thrown, v) ==
    /\ view' = vw
    /\ ret' = [thrown |-> thrown, v |-> v]
    /\ UNCHANGED <<alive, content, heap, opt, result, buf>>

\* x = string_view()
ViewDefault(x) ==
    /\ x \in Views
    /\ ViewReturn([view EXCEPT ![x] = string_view_default], "none", 0)

\* x = string_view(s, count), s and count naming characters of the buffer
ViewPtrCount(x, s, count) ==
    /\ s + count <= BufLen
    /\ ViewReturn([view EXCEPT ![x] = string_view_ptr_count(s, count)], "none", 0)

\* x = string_view(str), str the std::string that owns the buffer
ViewString(x) ==
    /\ x \in Views
    /\ ViewReturn([view EXCEPT ![x] = string_view_string], "none", 0)

At(x, pos) ==
    /\ pos \in SizeArgs
    /\ LET r == at(buf, view[x], pos)
       IN ViewReturn(view, r.thrown, r.v)

RemovePrefix(x, n) ==
    /\ n \in SizeArgs
    /\ ViewReturn([view EXCEPT ![x] = remove_prefix(@, n)], "none", 0)

RemoveSuffix(x, n) ==
    /\ n \in SizeArgs
    /\ ViewReturn([view EXCEPT ![x] = remove_suffix(@, n)], "none", 0)

ViewSwap(x, y) ==
    /\ x \in Views /\ y \in Views
    /\ ViewReturn(string_view_swap(view, x, y), "none", 0)

\* y = x.substr(pos, count)
Substr(x, y, pos, count) ==
    /\ pos \in SizeArgs /\ count \in SizeArgs
    /\ LET r == substr(view[x], pos, count)
       IN IF r.thrown # "none"
          THEN ViewReturn(view, r.thrown, 0)
          ELSE ViewReturn([view EXCEPT ![y] = r.view], "none", 0)

Compare(x, y) ==
    /\ x \in Views /\ y \in Views
    /\ ViewReturn(view, "none", compare(buf, view[x], view[y]))

FindChar(x, c, pos) ==
    /\ pos \in SizeArgs
    /\ ViewReturn(view, "none", find_char(buf, view[x], c, pos))

Find(x, y, pos) ==
    /\ pos \in SizeArgs
    /\ ViewReturn(view, "none", find(buf, view[x], view[y], pos))

RfindChar(x, c, pos) ==
    /\ pos \in SizeArgs
    /\ ViewReturn(view, "none", rfind_char(buf, view[x], c, pos))

Rfind(x, y, pos) ==
    /\ pos \in SizeArgs
    /\ ViewReturn(view, "none", rfind(buf, view[x], view[y], pos))

\* a relational operator returns a bool, kept as 0 or 1
ViewCompare(rel, x, y) ==
    /\ rel \in Relations
    /\ ViewReturn(view, "none",
                  IF string_view_compare(buf, rel, view[x], view[y]) THEN 1 ELSE 0)

NextView ==
    \/ \E x \in Views : ViewDefault(x)
    \/ \E x \in Views, s \in 0..BufLen, count \in 0..BufLen : ViewPtrCount(x, s, count)
    \/ \E x \in Views : ViewString(x)
    \/ \E x \in Views, pos \in SizeArgs : At(x, pos)
    \/ \E x \in Views, n \in SizeArgs : RemovePrefix(x, n)
    \/ \E x \in Views, n \in SizeArgs : RemoveSuffix(x, n)
    \/ \E x, y \in Views : ViewSwap(x, y)
    \/ \E x, y \in Views, pos, count \in SizeArgs : Substr(x, y, pos, count)
    \/ \E x, y \in Views : Compare(x, y)
    \/ \E x \in Views, c \in Chars, pos \in SizeArgs : FindChar(x, c, pos)
    \/ \E x, y \in Views, pos \in SizeArgs : Find(x, y, pos)
    \/ \E x \in Views, c \in Chars, pos \in SizeArgs : RfindChar(x, c, pos)
    \/ \E x, y \in Views, pos \in SizeArgs : Rfind(x, y, pos)
    \/ \E rel \in Relations, x, y \in Views : ViewCompare(rel, x, y)

SpecView == InitView /\ [][NextView]_vars

-----------------------------------------------------------------------------
(* Vocabulary of the properties *)

\* what an any holds: nothing, or a value of a type
Holds(s, a) ==
    IF s.content[a] = NULL
    THEN <<VoidType, NoValue>>
    ELSE <<s.heap[s.content[a]].type, s.heap[s.content[a]].value>>

SameProgramState(s, t) ==
    s.alive = t.alive /\ s.content = t.content /\ s.heap = t.heap

-----------------------------------------------------------------------------
\* C1: storing a value v of type T by value construction or value assignment,
\* then pointer-extracting as T yields a non-null pointer to a value equal to
\* v, and pointer-extracting as any other type U yields null.
RoundTrip ==
    \A a \in Anys, Q \in ArgTypes, v \in Values :
        LET s == IF alive[a]
                 THEN assign_value(Store, a, Q, v, FALSE)
                 ELSE any_value(Store, a, Q, v, FALSE)
        IN \A U \in Types :
               LET ptr == any_cast_ptr(s, a, Plain(U)).p
               IN IF U = Q.base
                  THEN ptr # NULL /\ s.heap[ptr].value = v
                  ELSE ptr = NULL

\* an any holds the int 1: extraction as int points at 1, as double gives null
RoundTripWitness ==
    \E a \in Anys :
        /\ alive[a]
        /\ any_cast_ptr(Store, a, Plain("int")).p # NULL
        /\ heap[any_cast_ptr(Store, a, Plain("int")).p].value = 1
        /\ any_cast_ptr(Store, a, Plain("double")).p = NULL

\* C2: a default-constructed any has no value and type() void; the pointer
\* form returns null for every type and every value form throws bad_any_cast.
EmptyContract ==
    \A a \in Anys :
        ~alive[a] =>
            LET s == any_default(Store, a)
            IN /\ s.alive[a]
               /\ ~has_value(s, a)
               /\ type(s, a) = VoidType
               /\ \A T \in Types : any_cast_ptr(s, a, Plain(T)).p = NULL
               /\ \A Q \in CastTypes :
                     /\ any_cast_const(s, a, Q).thrown = "bad_any_cast"
                     /\ any_cast_mut(s, a, Q).thrown = "bad_any_cast"
                     /\ \A mv \in Values :
                           any_cast_rvalue(s, a, Q, mv).thrown = "bad_any_cast"

\* an any was default-constructed while the other one is not yet alive: it
\* is empty, and extracting an int from it throws
EmptyContractWitness ==
    \E a, b \in Anys :
        /\ alive[a] /\ ~alive[b]
        /\ ~has_value(Store, a) /\ type(Store, a) = VoidType
        /\ any_cast_ptr(Store, a, Plain("int")).p = NULL
        /\ any_cast_mut(Store, a, Plain("int")).thrown = "bad_any_cast"

\* the outcome of a value-form extraction as T from the any a: bad_any_cast
\* exactly when a is empty or holds another type than T without its reference
\* and cv qualifiers, and then the program state is as before
ThrowsExactlyOnMismatch(r, a, Q) ==
    /\ r.thrown = "bad_any_cast" <=>
          (content[a] = NULL \/ heap[content[a]].type # Q.base)
    /\ r.thrown \in {"none", "bad_any_cast"}
    /\ r.thrown = "bad_any_cast" => SameProgramState(r, Store)

\* C3: each value form of any_cast (const, mutable, rvalue operand) throws
\* bad_any_cast exactly when the any is empty or its recorded type differs
\* from T without reference and cv qualifiers; an extraction that throws
\* leaves has_value(), type() and the held value unchanged.
ValueCastThrows ==
    \A a \in Anys, Q \in CastTypes :
        alive[a] =>
            /\ ThrowsExactlyOnMismatch(any_cast_const(Store, a, Q), a, Q)
            /\ ThrowsExactlyOnMismatch(any_cast_mut(Store, a, Q), a, Q)
            /\ \A mv \in Values :
                  ThrowsExactlyOnMismatch(any_cast_rvalue(Store, a, Q, mv), a, Q)

\* an any holding a string: extraction as int& throws and leaves the string,
\* extraction as const string& returns a reference to it
ValueCastThrowsWitness ==
    \E a \in Anys :
        /\ alive[a] /\ type(Store, a) = "string"
        /\ LET r == any_cast_mut(Store, a, [base |-> "int", const |-> FALSE, ref |-> "lref"])
           IN r.thrown = "bad_any_cast" /\ Holds(r, a) = Holds(Store, a)
        /\ LET r == any_cast_const(Store, a, [base |-> "string", const |-> TRUE, ref |-> "lref"])
           IN r.thrown = "none" /\ r.p = content[a]

\* C4: the pointer form of any_cast throws nothing and changes no any; it
\* returns null if and only if the operand is null, the any is empty, or the
\* held type is not exactly T.
PointerCastNoThrow ==
    \A operand \in Anys \cup {NullOperand}, T \in Types :
        (operand \in Anys => alive[operand]) =>
            LET r == any_cast_ptr(Store, operand, Plain(T))
            IN /\ r.thrown = "none"
               /\ SameProgramState(r, Store)
               /\ r.p = NULL <=>
                     \/ operand = NullOperand
                     \/ content[operand] = NULL
                     \/ heap[content[operand]].type # T
               /\ r.p # NULL => r.p = content[operand]

\* an any holding an int, for which the pointer form gives null as double
\* and its holder as int
PointerCastNoThrowWitness ==
    \E a \in Anys :
        /\ alive[a] /\ has_value(Store, a) /\ type(Store, a) = "int"
        /\ any_cast_ptr(Store, a, Plain("double")).p = NULL
        /\ any_cast_ptr(Store, a, Plain("int")).p = content[a]
        /\ any_cast_ptr(Store, NullOperand, Plain("int")).p = NULL

\* C5: when b is a copy of a (copy construction or copy assignment) and a
\* holds a value, a write through any_cast<T&> on either of the two is what
\* later extractions from that one observe, and the other one keeps its value.
CopyIndependence ==
    \A a, b \in Anys :
        (a # b /\ alive[a] /\ has_value(Store, a)) =>
            LET s == IF alive[b]
                     THEN assign_copy(Store, b, a, FALSE)
                     ELSE any_copy(Store, b, a, FALSE)
                T == type(Store, a)
            IN /\ Holds(s, b) = Holds(Store, a)
               /\ Holds(s, a) = Holds(Store, a)
               /\ \A x \in {a, b}, v \in Values :
                     LET y == IF x = a THEN b ELSE a
                         w == write_through(s, x, T, v)
                     IN /\ w.thrown = "none"
                        /\ any_cast_mut(w, x, Plain(T)).v = v
                        /\ any_cast_const(w, x, Plain(T)).v = v
                        /\ any_cast_const(w, y, Plain(T)).v = Holds(s, y)[2]
                        /\ Holds(w, y) = Holds(s, y)

\* two anys hold values of one type in two holders, and the values differ: a
\* copy, then a write through one of the two
CopyIndependenceWitness ==
    \E a, b \in Anys :
        /\ a # b /\ alive[a] /\ alive[b]
        /\ has_value(Store, a) /\ has_value(Store, b)
        /\ type(Store, a) = type(Store, b)
        /\ content[a] # content[b]
        /\ Holds(Store, a)[2] # Holds(Store, b)[2]
        /\ Holds(assign_copy(Store, b, a, FALSE), b) = Holds(Store, a)

\* C6: after move construction any b(std::move(a)) or move assignment
\* b = std::move(a), whatever a and b were before, b holds the type and value
\* a held (nothing if a was empty) and a has no value.
MoveEmptiesSource ==
    \A a, b \in Anys :
        (a # b /\ alive[a]) =>
            LET s == IF alive[b]
                     THEN assign_move(Store, b, a)
                     ELSE any_move(Store, b, a)
            IN /\ s.thrown = "none"
               /\ s.alive[a] /\ s.alive[b]
               /\ Holds(s, b) = Holds(Store, a)
               /\ has_value(s, b) = has_value(Store, a)
               /\ ~has_value(s, a)

\* a live any is empty beside one that holds a value, and moving the value
\* back would empty its holder
MoveEmptiesSourceWitness ==
    \E a, b \in Anys :
        /\ a # b /\ alive[a] /\ alive[b]
        /\ ~has_value(Store, a) /\ has_value(Store, b)
        /\ has_value(assign_move(Store, a, b), a)
        /\ ~has_value(assign_move(Store, a, b), b)

\* C7: when cloning the right-hand side (copy assignment) or constructing the
\* incoming value (value assignment) throws while the target holds v1, the
\* exception reaches the caller and the target still reports the type and the
\* value it had.
AssignStrongGuarantee ==
    \A a \in Anys :
        (alive[a] /\ has_value(Store, a)) =>
            /\ \A rhs \in Anys :
                  (alive[rhs] /\ has_value(Store, rhs)) =>
                      LET r == assign_copy(Store, a, rhs, TRUE)
                      IN /\ r.thrown = "exception"
                         /\ type(r, a) = type(Store, a)
                         /\ Holds(r, a) = Holds(Store, a)
            /\ \A Q \in ArgTypes, v \in Values :
                  LET r == assign_value(Store, a, Q, v, TRUE)
                  IN /\ r.thrown = "exception"
                     /\ type(r, a) = type(Store, a)
                     /\ Holds(r, a) = Holds(Store, a)

\* an any holding an int is assigned an any holding a string, the clone
\* throws, and the target holds its int as before
AssignStrongGuaranteeWitness ==
    \E a, b \in Anys :
        /\ alive[a] /\ alive[b]
        /\ type(Store, a) = "int" /\ type(Store, b) = "string"
        /\ LET r == assign_copy(Store, a, b, TRUE)
           IN r.thrown = "exception" /\ Holds(r, a) = Holds(Store, a)
        /\ type(assign_copy(Store, a, b, FALSE), a) = "string"

\* C8: for any two anys, empty or holding a value of any type, a.swap(b)
\* followed by b.swap(a) restores has_value(), type() and the held value of
\* both (member swap and the non-member swap alike).
SwapSymmetry ==
    \A a, b \in Anys :
        (alive[a] /\ alive[b]) =>
            /\ LET back == swap(swap(Store, a, b), b, a)
               IN /\ SameProgramState(back, Store)
                  /\ Holds(back, a) = Holds(Store, a)
                  /\ Holds(back, b) = Holds(Store, b)
            /\ LET back == nonmember_swap(nonmember_swap(Store, a, b), b, a)
               IN /\ SameProgramState(back, Store)
                  /\ Holds(back, a) = Holds(Store, a)
                  /\ Holds(back, b) = Holds(Store, b)

\* an empty any beside one holding a value, where the first swap changes both
SwapSymmetryWitness ==
    \E a, b \in Anys :
        /\ a # b /\ alive[a] /\ alive[b]
        /\ ~has_value(Store, a) /\ has_value(Store, b)
        /\ has_value(swap(Store, a, b), a) /\ ~has_value(swap(Store, a, b), b)

\* C9: in every reachable state has_value() is true exactly when the any owns
\* a holder, and type() is void exactly when has_value() is false.
HasValueIffHolder ==
    \A a \in Anys :
        alive[a] =>
            /\ has_value(Store, a) <=>
                  (content[a] \in HolderIds /\ heap[content[a]].live)
            /\ type(Store, a) = VoidType <=> ~has_value(Store, a)
            /\ has_value(Store, a) => type(Store, a) \in Types

\* one any was reset or moved from and is empty, another owns a holder
HasValueIffHolderWitness ==
    \E a, b \in Anys :
        /\ alive[a] /\ alive[b]
        /\ has_value(Store, a) /\ type(Store, a) = "string"
        /\ ~has_value(Store, b) /\ type(Store, b) = VoidType
        /\ \E p \in HolderIds : p # content[a] /\ ~heap[p].live

\* P holds of what each operation the program can perform in the current
\* state would leave behind, by kind of operation.
AfterEachConstructOrDestroy(P(_)) ==
    /\ \A a \in Anys :
          IF alive[a]
          THEN P(any_dtor(Store, a))
          ELSE /\ P(any_default(Store, a))
               /\ \A Q \in ArgTypes, v \in Values, f \in BOOLEAN :
                     P(any_value(Store, a, Q, v, f))
               /\ \A o \in Anys, f \in BOOLEAN :
                     alive[o] => P(any_copy(Store, a, o, f))

AfterEachExtraction(P(_)) ==
    /\ \A T \in Types : P(any_cast_ptr(Store, NullOperand, Plain(T)))
    /\ \A a \in Anys :
          alive[a] =>
              /\ \A T \in Types : P(any_cast_ptr(Store, a, Plain(T)))
              /\ \A Q \in CastTypes :
                    /\ P(any_cast_const(Store, a, Q))
                    /\ P(any_cast_mut(Store, a, Q))
                    /\ \A mv \in Values : P(any_cast_rvalue(Store, a, Q, mv))
              /\ \A T \in Types, v \in Values : P(write_through(Store, a, T, v))

AfterEachMoveConstruct(P(_)) ==
    \A a, o \in Anys : (~alive[a] /\ alive[o]) => P(any_move(Store, a, o))

AfterEachSwap(P(_)) ==
    \A a, b \in Anys :
        (alive[a] /\ alive[b]) =>
            P(swap(Store, a, b)) /\ P(nonmember_swap(Store, a, b))

AfterEachAssignOrReset(P(_)) ==
    \A a \in Anys :
        alive[a] =>
            /\ P(reset(Store, a))
            /\ \A Q \in ArgTypes, v \in Values, f \in BOOLEAN :
                  P(assign_value(Store, a, Q, v, f))
            /\ \A b \in Anys :
                  alive[b] =>
                      /\ P(assign_move(Store, a, b))
                      /\ \A f \in BOOLEAN : P(assign_copy(Store, a, b, f))

\* no any that lives through the operation reports another type after it
TypeUnchangedBy(r) ==
    \A x \in Anys : (alive[x] /\ r.alive[x]) => type(r, x) = type(Store, x)

\* no holder that lives through the operation has another recorded type after it
HolderTypesUnchangedBy(r) ==
    \A p \in HolderIds :
        (heap[p].live /\ r.heap[p].live) => r.heap[p].type = heap[p].type

\* C10 as stated: a holder's recorded type is the decayed static type of the
\* value stored, no operation changes it, and only value assignment, copy/move
\* assignment and reset change the type an any reports.
OnlyAssignAndResetChangeType ==
    /\ AfterEachConstructOrDestroy(TypeUnchangedBy)
    /\ AfterEachExtraction(TypeUnchangedBy)
    /\ AfterEachMoveConstruct(TypeUnchangedBy)
    /\ AfterEachSwap(TypeUnchangedBy)

\* C10 (amended): type() of a non-empty any is the decayed static type of the
\* value stored into its holder (or into the holder it was cloned from); no
\* operation changes a holder's recorded type; and the type an any reports is
\* changed only by value assignment, copy/move assignment, reset, swap, and
\* by being the source of a move construction.
ReportedTypeIsStoredType ==
    /\ \A a \in Anys, Q \in ArgTypes, v \in Values :
          LET s == IF alive[a]
                   THEN assign_value(Store, a, Q, v, FALSE)
                   ELSE any_value(Store, a, Q, v, FALSE)
          IN type(s, a) = Q.base
    /\ AfterEachConstructOrDestroy(HolderTypesUnchangedBy)
    /\ AfterEachExtraction(HolderTypesUnchangedBy)
    /\ AfterEachMoveConstruct(HolderTypesUnchangedBy)
    /\ AfterEachSwap(HolderTypesUnchangedBy)
    /\ AfterEachAssignOrReset(HolderTypesUnchangedBy)
    /\ AfterEachConstructOrDestroy(TypeUnchangedBy)
    /\ AfterEachExtraction(TypeUnchangedBy)
    /\ \A a, b \in Anys :
          (a # b /\ alive[a]) =>
              /\ LET s == IF alive[b]
                          THEN assign_copy(Store, b, a, FALSE)
                          ELSE any_copy(Store, b, a, FALSE)
                 IN type(s, b) = type(Store, a) /\ type(s, a) = type(Store, a)
              /\ LET s == IF alive[b]
                          THEN assign_move(Store, b, a)
                          ELSE any_move(Store, b, a)
                 IN /\ type(s, b) = type(Store, a)
                    /\ \A x \in Anys \ {a, b} : alive[x] => type(s, x) = type(Store, x)
              /\ alive[b] =>
                    LET s == swap(Store, a, b)
                    IN /\ type(s, a) = type(Store, b)
                       /\ type(s, b) = type(Store, a)
                       /\ \A x \in Anys \ {a, b} :
                             alive[x] => type(s, x) = type(Store, x)

\* an int and a string are held by two anys, so that a swap makes each report
\* the other's type while both holders keep theirs
ReportedTypeIsStoredTypeWitness ==
    \E a, b \in Anys :
        /\ alive[a] /\ alive[b]
        /\ type(Store, a) = "int" /\ type(Store, b) = "string"
        /\ type(swap(Store, a, b), a) = "string"
        /\ HolderTypesUnchangedBy(swap(Store, a, b))

-----------------------------------------------------------------------------
\* the live anys that own the holder p
Owners(s, p) == {a \in Slots : s.alive[a] /\ s.content[a] = p}

\* C11: no holder is owned by two containers at the same time, whatever copy,
\* move, assignment, swap and reset operations were applied; a copy obtains
\* the value through clone, in a holder of its own.
ExclusiveOwnership ==
    /\ \A a, b \in Slots :
          (a # b /\ alive[a] /\ alive[b] /\ content[a] # NULL) =>
              content[a] # content[b]
    /\ \A a, b \in Anys :
          (a # b /\ alive[a] /\ has_value(Store, a)) =>
              LET s == IF alive[b]
                       THEN assign_copy(Store, b, a, FALSE)
                       ELSE any_copy(Store, b, a, FALSE)
              IN /\ s.content[b] # s.content[a]
                 /\ s.content[a] = content[a]
                 /\ Holds(s, b) = Holds(Store, a)
                 /\ <<"new", s.content[b]>> \in {s.events[i] : i \in DOMAIN s.events}

\* two anys hold equal values of one type, each in a holder of its own
ExclusiveOwnershipWitness ==
    \E a, b \in Anys :
        /\ a # b /\ alive[a] /\ alive[b]
        /\ has_value(Store, a) /\ has_value(Store, b)
        /\ Holds(Store, a) = Holds(Store, b)
        /\ Cardinality(Owners(Store, content[a])) = 1
        /\ Cardinality(Owners(Store, content[b])) = 1

\* C12: reset() leaves the any empty (has_value() false, type() void) from any
\* prior state, throws nothing, and a second reset() changes nothing more.
ResetIdempotent ==
    \A a \in Anys :
        alive[a] =>
            LET r == reset(Store, a)
                rr == reset(r, a)
            IN /\ r.thrown = "none" /\ rr.thrown = "none"
               /\ ~has_value(r, a) /\ type(r, a) = VoidType
               /\ r.alive[a]
               /\ SameProgramState(rr, r)
               /\ rr.events = r.events

\* an any holding a value, whose reset releases the holder, beside an empty
\* one, whose reset changes nothing
ResetIdempotentWitness ==
    \E a, b \in Anys :
        /\ alive[a] /\ alive[b]
        /\ has_value(Store, a) /\ ~has_value(Store, b)
        /\ reset(Store, a).events = << <<"delete", content[a]>> >>
        /\ SameProgramState(reset(Store, b), Store)

\* C13: a.swap(b) leaves a owning the holder b owned and b owning the holder
\* a owned (either may be none), and no holder and no stored value is
\* created, cloned, moved or destroyed.
SwapExchangesHolders ==
    \A a, b \in Anys :
        (alive[a] /\ alive[b]) =>
            LET r == swap(Store, a, b)
            IN /\ r.content[a] = content[b]
               /\ r.content[b] = content[a]
               /\ \A x \in Slots \ {a, b} : r.content[x] = content[x]
               /\ r.heap = heap
               /\ r.alive = alive
               /\ r.events = <<>>
               /\ r.thrown = "none"

\* an int and a string held by two anys: the swap exchanges the two holders
SwapExchangesHoldersWitness ==
    \E a, b \in Anys :
        /\ alive[a] /\ alive[b]
        /\ type(Store, a) = "int" /\ type(Store, b) = "string"
        /\ content[a] # content[b]
        /\ swap(Store, a, b).content[a] = content[b]
        /\ Holds(swap(Store, a, b), b) = Holds(Store, a)

\* every any that held a value before the operation holds one after it, in
\* the same holder
NotEmptiedBy(r) ==
    \A x \in Anys :
        (alive[x] /\ has_value(Store, x)) =>
            r.alive[x] /\ has_value(r, x) /\ r.content[x] = content[x]

\* C14: a successful any_cast<T>(std::move(a)) returns the held value and
\* leaves has_value() true and type() unchanged; no extraction, of any form,
\* empties the any.
RvalueCastKeepsValue ==
    /\ \A a \in Anys, Q \in CastTypes :
          (alive[a] /\ type(Store, a) = typeid(Q)) =>
              \A mv \in MovedFromStates(Q) :
                  LET r == any_cast_rvalue(Store, a, Q, mv)
                  IN /\ r.thrown = "none"
                     /\ IF is_reference(Q)
                        THEN r.p = content[a]
                        ELSE r.v = heap[content[a]].value
                     /\ has_value(r, a)
                     /\ type(r, a) = type(Store, a)
    /\ AfterEachExtraction(NotEmptiedBy)

\* a string is moved out of an any by value: the caller gets the string, the
\* any keeps its holder, whose string is left in another state
RvalueCastKeepsValueWitness ==
    \E a \in Anys, mv \in Values :
        /\ alive[a] /\ type(Store, a) = "string"
        /\ LET r == any_cast_rvalue(Store, a, Plain("string"), mv)
           IN /\ r.v = heap[content[a]].value
              /\ r.heap[content[a]].value # r.v
              /\ has_value(r, a)

\* the positions in the operation's event sequence at which e happened
When(r, e) == {i \in DOMAIN r.events : r.events[i] = e}

\* the assignment destroyed the holder a owned before every construction of a
\* holder
DestroyedThenConstructed(r, a) ==
    \A i \in When(r, <<"delete", content[a]>>) :
        \A j \in DOMAIN r.events : r.events[j][1] = "new" => i < j

\* the assignment constructed the holder a owns after it before it destroyed
\* the holder a owned before it
ConstructedThenDestroyed(r, a) ==
    /\ When(r, <<"new", r.content[a]>>) # {}
    /\ When(r, <<"delete", content[a]>>) # {}
    /\ \A i \in When(r, <<"new", r.content[a]>>) :
          \A j \in When(r, <<"delete", content[a]>>) : i < j

\* C15 as stated: within copy assignment and value assignment the previously
\* held value is destroyed before the new value is constructed.
OldDestroyedBeforeNewConstructed ==
    \A a \in Anys :
        (alive[a] /\ has_value(Store, a)) =>
            /\ \A Q \in ArgTypes, v \in Values :
                  DestroyedThenConstructed(assign_value(Store, a, Q, v, FALSE), a)
            /\ \A b \in Anys :
                  (alive[b] /\ has_value(Store, b)) =>
                      DestroyedThenConstructed(assign_copy(Store, a, b, FALSE), a)

\* C15 (amended): within copy assignment and value assignment the new value
\* is constructed before the previously held value is destroyed, and when the
\* construction throws the previously held value is not destroyed at all.
NewConstructedBeforeOldDestroyed ==
    \A a \in Anys :
        (alive[a] /\ has_value(Store, a)) =>
            /\ \A Q \in ArgTypes, v \in Values :
                  /\ ConstructedThenDestroyed(assign_value(Store, a, Q, v, FALSE), a)
                  /\ assign_value(Store, a, Q, v, TRUE).events = <<>>
            /\ \A b \in Anys :
                  (alive[b] /\ has_value(Store, b)) =>
                      /\ ConstructedThenDestroyed(assign_copy(Store, a, b, FALSE), a)
                      /\ assign_copy(Store, a, b, TRUE).events = <<>>

\* an any holding a value is assigned another value: the operation's events
\* are the construction of the new holder, then the destruction of the old one
NewConstructedBeforeOldDestroyedWitness ==
    \E a \in Anys, v \in Values :
        /\ alive[a] /\ has_value(Store, a)
        /\ LET r == assign_value(Store, a, Plain("int"), v, FALSE)
           IN r.events = << <<"new", r.content[a]>>, <<"delete", content[a]>> >>

\* the holders that exist in store s
LiveHolders(s) == {p \in HolderIds : s.heap[p].live}

\* every holder of s has exactly one owner and every owning pointer of s
\* points at a holder that exists
EachHolderOwnedOnce(s) ==
    /\ \A p \in HolderIds :
          s.heap[p].live => \E a \in Slots : s.alive[a] /\ s.content[a] = p
    /\ \A a \in Slots :
          IF s.alive[a] /\ s.content[a] # NULL
          THEN /\ s.heap[s.content[a]].live
               /\ \A b \in Slots :
                     (b # a /\ s.alive[b]) => s.content[b] # s.content[a]
          ELSE s.content[a] = NULL

\* there are as many holders in s as non-empty anys
AsManyHoldersAsValues(s) ==
    Cardinality(LiveHolders(s)) =
        Cardinality({a \in Slots : s.alive[a] /\ has_value(s, a)})

\* The holders that exist after the events ev happened to the holders H, or
\* {NULL} if ev creates a holder that exists or destroys one that does not.
RECURSIVE Lifecycle(_, _)
Lifecycle(H, ev) ==
    IF ev = <<>>
    THEN H
    ELSE LET p == Head(ev)[2]
         IN CASE Head(ev)[1] = "new" /\ p \notin H -> Lifecycle(H \cup {p}, Tail(ev))
              [] Head(ev)[1] = "delete" /\ p \in H -> Lifecycle(H \ {p}, Tail(ev))
              [] OTHER -> {NULL}

\* the operation created only holders that did not exist and destroyed only
\* holders that existed (none twice), the holders of its outcome are those its
\* events leave, and the temporary it used is gone; its outcome is the next
\* state, where the ownership of every holder is checked again
LifecycleKeptBy(r) ==
    /\ Lifecycle(LiveHolders(Store), r.events) = LiveHolders(r)
    /\ ~r.alive[Tmp]

\* C16: through every sequence of construction, copy, move, assignment, swap,
\* reset and destruction, a holder that was created is owned by exactly one
\* live any or has been destroyed exactly once; none is leaked or destroyed
\* twice, and after each operation there are as many holders as non-empty
\* live anys.
HolderLifecycle ==
    /\ EachHolderOwnedOnce(Store)
    /\ AsManyHoldersAsValues(Store)
    /\ AfterEachConstructOrDestroy(LifecycleKeptBy)
    /\ AfterEachMoveConstruct(LifecycleKeptBy)
    /\ AfterEachAssignOrReset(LifecycleKeptBy)
    /\ AfterEachSwap(LifecycleKeptBy)

\* two anys hold values, one holder has been destroyed and its address is
\* free again, and destroying an any destroys exactly the holder it owns
HolderLifecycleWitness ==
    \E a, b \in Anys :
        /\ a # b /\ alive[a] /\ alive[b]
        /\ has_value(Store, a) /\ has_value(Store, b)
        /\ LiveHolders(Store) = {content[a], content[b]}
        /\ \E p \in HolderIds : p < content[a] /\ ~heap[p].live
        /\ any_dtor(Store, a).events = << <<"delete", content[a]>> >>
        /\ LiveHolders(any_dtor(Store, a)) = {content[b]}

\* C17: copy construction from an empty any never fails and gives an empty
\* any; from a non-empty any it gives an any with the same type() and an
\* equal held value, and leaves the source unchanged.
CopyConstruction ==
    \A a, o \in Anys :
        (~alive[a] /\ alive[o]) =>
            IF has_value(Store, o)
            THEN LET r == any_copy(Store, a, o, FALSE)
                 IN /\ r.thrown = "none" /\ r.alive[a]
                    /\ type(r, a) = type(Store, o)
                    /\ Holds(r, a) = Holds(Store, o)
                    /\ Holds(r, o) = Holds(Store, o)
                    /\ r.content[o] = content[o]
                    /\ r.heap[content[o]] = heap[content[o]]
            ELSE \A f \in BOOLEAN :
                    LET r == any_copy(Store, a, o, f)
                    IN /\ r.thrown = "none" /\ r.alive[a]
                       /\ ~has_value(r, a) /\ type(r, a) = VoidType
                       /\ r.events = <<>>
                       /\ r.content[o] = content[o] /\ r.heap = heap

\* an any holding a double is the source of a copy construction, which gives
\* an equal double in another holder; once reset it is the source of a copy
\* construction that allocates nothing and cannot fail
CopyConstructionWitness ==
    \E a, o \in Anys :
        /\ ~alive[a] /\ alive[o]
        /\ type(Store, o) = "double"
        /\ LET r == any_copy(Store, a, o, FALSE)
           IN /\ Holds(r, a) = <<"double", heap[content[o]].value>>
              /\ r.content[a] # r.content[o]
        /\ LET e == any_copy(reset(Store, o), a, o, TRUE)
           IN e.thrown = "none" /\ e.alive[a] /\ ~has_value(e, a)

-----------------------------------------------------------------------------
(* Properties of optional<T> *)

\* what an optional contains: nothing, or a value
Contains(s, o) ==
    IF optional_has_value(s, o) THEN <<TRUE, optional_deref(s, o)>> ELSE <<FALSE, NoValue>>

\* C18: each of the four overloads of value() throws bad_optional_access if
\* and only if the optional is empty; otherwise it returns the stored value; a
\* call that throws leaves the optional empty and changes nothing.
ValueThrowsIffEmpty ==
    \A o \in Opts, q \in ValueOverloads :
        opt[o].alive =>
            LET r == optional_value(OptStore, o, q)
            IN /\ r.thrown \in {"none", "bad_optional_access"}
               /\ r.thrown = "bad_optional_access" <=> ~optional_has_value(OptStore, o)
               /\ r.thrown = "none" => r.v = optional_deref(OptStore, o)
               /\ r.thrown # "none" =>
                     /\ ~optional_has_value(r, o)
                     /\ r.v = NoValue
               /\ r.opt = opt
               /\ r.events = <<>>

\* value() has just thrown bad_optional_access on an empty optional, which
\* is still empty, beside an engaged optional whose value() returns its value
ValueThrowsIffEmptyWitness ==
    /\ result.op = "value" /\ result.thrown = "bad_optional_access"
    /\ \E o, e \in Opts :
          /\ opt[o].alive /\ opt[e].alive
          /\ optional_has_value(OptStore, o) /\ ~optional_has_value(OptStore, e)
          /\ optional_value(OptStore, e, "&&").thrown = "bad_optional_access"
          /\ optional_value(OptStore, o, "const&").v = opt[o].storage_

\* C19: for every combination of engaged and empty target and source, after
\* copy, move, value or nullopt assignment the target's has_value() is the
\* source's prior has_value() (true for a value, false for nullopt) and, when
\* engaged, *target is the source's prior value; copy assignment leaves the
\* source unchanged.
AssignmentTransfers ==
    \A t \in Opts :
        opt[t].alive =>
            /\ \A src \in Opts :
                  opt[src].alive =>
                      /\ LET r == optional_assign_copy(OptStore, t, src)
                         IN /\ Contains(r, t) = Contains(OptStore, src)
                            /\ r.opt[src] = opt[src]
                            /\ r.thrown = "none"
                      /\ \A mv \in Values :
                            LET r == optional_assign_move(OptStore, t, src, mv)
                            IN /\ Contains(r, t) = Contains(OptStore, src)
                               /\ r.thrown = "none"
            /\ \A v \in Values :
                  LET r == optional_assign_value(OptStore, t, v)
                  IN Contains(r, t) = <<TRUE, v>> /\ r.thrown = "none"
            /\ LET r == optional_assign_nullopt(OptStore, t)
               IN Contains(r, t) = <<FALSE, NoValue>> /\ r.thrown = "none"

\* an assignment has just returned; of an empty and an engaged optional,
\* each assigned to the other gets what the other contains
AssignmentTransfersWitness ==
    /\ result.op \in {"operator=(const optional&)", "operator=(optional&&)",
                      "operator=(U&&)", "operator=(nullopt_t)"}
    /\ \E t, src \in Opts :
          /\ opt[t].alive /\ opt[src].alive
          /\ ~optional_has_value(OptStore, t) /\ optional_has_value(OptStore, src)
          /\ Contains(optional_assign_copy(OptStore, t, src), t) = <<TRUE, opt[src].storage_>>
          /\ Contains(optional_assign_copy(OptStore, src, t), src) = <<FALSE, NoValue>>

\* C20: after a.swap(b), a has the engagement and value b had and b has the
\* engagement and value a had, whichever of a and b were engaged.
OptionalSwapExchanges ==
    \A a, b \in Opts :
        (opt[a].alive /\ opt[b].alive) =>
            LET r == optional_swap(OptStore, a, b)
            IN /\ Contains(r, a) = Contains(OptStore, b)
               /\ Contains(r, b) = Contains(OptStore, a)
               /\ \A x \in Opts \ {a, b} : r.opt[x] = opt[x]
               /\ r.thrown = "none"

\* a swap has just returned, leaving one optional engaged and the other
\* empty; swapping them again moves the value to the empty one
OptionalSwapExchangesWitness ==
    /\ result.op = "swap"
    /\ \E a, b \in Opts :
          /\ opt[a].alive /\ opt[b].alive
          /\ optional_has_value(OptStore, a) /\ ~optional_has_value(OptStore, b)
          /\ Contains(optional_swap(OptStore, a, b), b) = <<TRUE, opt[a].storage_>>
          /\ Contains(optional_swap(OptStore, a, b), a) = <<FALSE, NoValue>>

\* C21: two empty optionals compare equal, an empty optional is less than
\* every engaged one, two engaged optionals compare as their values; exactly
\* one of a < b, a == b, a > b holds, a != b iff !(a == b), a <= b iff
\* !(a > b), and a >= b iff !(a < b).
OptionalOrdering ==
    \A a, b \in Opts :
        (opt[a].alive /\ opt[b].alive) =>
            LET eq == optional_eq(OptStore, a, b)
                ne == optional_ne(OptStore, a, b)
                lt == optional_lt(OptStore, a, b)
                le == optional_le(OptStore, a, b)
                gt == optional_gt(OptStore, a, b)
                ge == optional_ge(OptStore, a, b)
                ea == ~optional_has_value(OptStore, a)
                eb == ~optional_has_value(OptStore, b)
            IN /\ (ea /\ eb) => eq
               /\ (ea /\ ~eb) => lt
               /\ (~ea /\ eb) => gt
               /\ (~ea /\ ~eb) =>
                     /\ eq <=> opt[a].storage_ = opt[b].storage_
                     /\ lt <=> opt[a].storage_ < opt[b].storage_
                     /\ gt <=> opt[a].storage_ > opt[b].storage_
               /\ (lt /\ ~eq /\ ~gt) \/ (~lt /\ eq /\ ~gt) \/ (~lt /\ ~eq /\ gt)
               /\ ne <=> ~eq
               /\ le <=> ~gt
               /\ ge <=> ~lt

\* operator< has just returned true; an empty optional is less than an
\* engaged one, and two engaged optionals with different values are ordered
\* as their values
OptionalOrderingWitness ==
    /\ result.op = "<" /\ result.v = 1
    /\ \E a, b \in Opts :
          /\ opt[a].alive /\ opt[b].alive
          /\ optional_has_value(OptStore, a) /\ optional_has_value(OptStore, b)
          /\ opt[a].storage_ < opt[b].storage_
          /\ optional_lt(OptStore, a, b) /\ ~optional_ge(OptStore, a, b)
          /\ optional_lt(optional_reset(OptStore, b), b, a)
          /\ optional_eq(optional_reset(optional_reset(OptStore, b), a), a, b)

\* C22: emplace(args...), on an empty or an engaged optional, destroys the
\* previous value (if any) exactly once, constructs a new T from args in
\* place, and leaves has_value() true and the stored value equal to T(args...).
EmplaceReplaces ==
    \A o \in Opts, v \in Values :
        opt[o].alive =>
            LET r == optional_emplace(OptStore, o, v)
            IN /\ r.events = IF optional_has_value(OptStore, o)
                             THEN << <<"destroy", o>>, <<"construct", o>> >>
                             ELSE << <<"construct", o>> >>
               /\ Contains(r, o) = <<TRUE, v>>
               /\ r.v = v
               /\ r.thrown = "none"
               /\ \A x \in Opts \ {o} : r.opt[x] = opt[x]

\* emplace has just returned; an engaged optional holds a value that a
\* further emplace destroys and replaces by another
EmplaceReplacesWitness ==
    /\ result.op = "emplace"
    /\ \E o \in Opts, v \in Values :
          /\ opt[o].alive /\ optional_has_value(OptStore, o)
          /\ opt[o].storage_ = result.v /\ v # opt[o].storage_
          /\ Contains(optional_emplace(OptStore, o, v), o) = <<TRUE, v>>

\* C29 as stated: optional<T>(const optional<U>&) yields an optional whose
\* has_value() is the source's has_value() and, when the source is engaged,
\* whose value is T(*source); from an empty optional<U> it always yields an
\* empty optional<T>.
ConvertingConstruction ==
    \A o \in Opts, other \in ConvertingSources, garbage \in BOOLEAN :
        ~opt[o].alive =>
            LET r == optional_converting(OptStore, o, other, garbage)
            IN /\ r.opt[o].alive
               /\ optional_has_value(r, o) = other.has_value_
               /\ other.has_value_ => optional_deref(r, o) = T_from_U(other.value)
               /\ ~other.has_value_ => Contains(r, o) = <<FALSE, NoValue>>

\* the optionals of s in whose storage a T object lives
LiveTs(s) == {o \in Opts : s.opt[o].storage_ # Dummy}

\* The optionals that hold a live T after the events ev happened to the T
\* objects of the optionals L, or {0} if ev constructs a T where one lives, or
\* assigns to or destroys a T where none lives.
RECURSIVE TLifetimes(_, _)
TLifetimes(L, ev) ==
    IF ev = <<>>
    THEN L
    ELSE LET o == Head(ev)[2]
         IN CASE Head(ev)[1] = "construct" /\ o \notin L -> TLifetimes(L \cup {o}, Tail(ev))
              [] Head(ev)[1] = "assign" /\ o \in L -> TLifetimes(L, Tail(ev))
              [] Head(ev)[1] = "destroy" /\ o \in L -> TLifetimes(L \ {o}, Tail(ev))
              [] OTHER -> {0}

\* the operation constructed, assigned to and destroyed T objects in an order
\* that constructs each first and destroys each once, and the T objects that
\* live after it are those its events leave
CleanupKeptBy(r) == TLifetimes(LiveTs(OptStore), r.events) = LiveTs(r)

AfterEachOptionalOperation(P(_)) ==
    \A o \in Opts :
        IF opt[o].alive
        THEN /\ P(optional_dtor(OptStore, o))
             /\ P(optional_reset(OptStore, o))
             /\ P(optional_assign_nullopt(OptStore, o))
             /\ \A q \in ValueOverloads : P(optional_value(OptStore, o, q))
             /\ \A v \in Values :
                   /\ P(optional_assign_value(OptStore, o, v))
                   /\ P(optional_emplace(OptStore, o, v))
             /\ \A other \in Opts :
                   opt[other].alive =>
                       /\ P(optional_assign_copy(OptStore, o, other))
                       /\ P(optional_swap(OptStore, o, other))
                       /\ \A mv \in Values :
                             P(optional_assign_move(OptStore, o, other, mv))
        ELSE /\ P(optional_default(OptStore, o))
             /\ P(optional_nullopt(OptStore, o))
             /\ \A v \in Values :
                   /\ P(optional_from_value(OptStore, o, v))
                   /\ P(optional_in_place(OptStore, o, v))
             /\ \A other \in ConvertingSources, garbage \in BOOLEAN :
                   P(optional_converting(OptStore, o, other, garbage))
             /\ \A other \in Opts :
                   opt[other].alive =>
                       /\ P(optional_copy(OptStore, o, other))
                       /\ \A mv \in Values : P(optional_move(OptStore, o, other, mv))

\* C23 as stated: through every sequence of construction (default, value,
\* copy, move, converting, in-place), assignment, emplace, reset, swap and
\* destruction, an optional is engaged if and only if its storage holds a
\* live T, every T is constructed before it is assigned to or read, and every
\* constructed T is destroyed exactly once.
ProperCleanup ==
    /\ \A o \in Opts :
          IF opt[o].alive
          THEN optional_has_value(OptStore, o) <=> o \in LiveTs(OptStore)
          ELSE o \notin LiveTs(OptStore)
    /\ AfterEachOptionalOperation(CleanupKeptBy)

\* C28: a = a and a = std::move(a) leave the any with the same has_value(),
\* type() and held value as before, and no holder is leaked or destroyed
\* twice.
SelfAssignmentSafe ==
    \A a \in Anys :
        alive[a] =>
            /\ LET c == assign_copy(Store, a, a, FALSE)
               IN /\ c.thrown = "none"
                  /\ has_value(c, a) = has_value(Store, a)
                  /\ type(c, a) = type(Store, a)
                  /\ Holds(c, a) = Holds(Store, a)
                  /\ \A x \in Anys \ {a} : c.content[x] = content[x]
                  /\ LifecycleKeptBy(c)
                  /\ EachHolderOwnedOnce(c)
                  /\ AsManyHoldersAsValues(c)
            /\ LET f == assign_copy(Store, a, a, TRUE)
               IN /\ f.thrown # "none" <=> has_value(Store, a)
                  /\ SameProgramState(f, Store)
                  /\ f.events = <<>>
            /\ LET m == assign_move(Store, a, a)
               IN /\ m.thrown = "none"
                  /\ has_value(m, a) = has_value(Store, a)
                  /\ type(m, a) = type(Store, a)
                  /\ Holds(m, a) = Holds(Store, a)
                  /\ SameProgramState(m, Store)
                  /\ m.events = <<>>

\* an any holding a string is assigned to itself: by copy it ends owning a
\* clone and the holder it owned is destroyed once; by move it keeps its holder
SelfAssignmentSafeWitness ==
    \E a \in Anys :
        /\ alive[a] /\ type(Store, a) = "string"
        /\ LET c == assign_copy(Store, a, a, FALSE)
           IN /\ c.content[a] # content[a]
              /\ Holds(c, a) = Holds(Store, a)
              /\ c.events = << <<"new", c.content[a]>>, <<"delete", content[a]>> >>
        /\ assign_move(Store, a, a).content[a] = content[a]

-----------------------------------------------------------------------------
(* Properties of project2::string_view *)

\* the characters a view denotes, when it lies within the buffer
Text(b, v) == [i \in 1..v.size_ |-> b[v.data_ + i]]

\* the smaller of two naturals
Least(m, n) == IF m <= n THEN m ELSE n

\* C24: at(pos) throws std::out_of_range if and only if pos >= size();
\* substr(pos, count) throws std::out_of_range if and only if pos > size(),
\* and otherwise returns a view of exactly the characters
\* [pos, pos + min(count, size() - pos)) of the view, which is left unchanged.
AtAndSubstrErrors ==
    \A x \in Views, pos \in SizeArgs :
        LET v == view[x]
        IN /\ LET r == at(buf, v, pos)
              IN /\ r.thrown = IF pos >= v.size_ THEN "out_of_range" ELSE "none"
                 /\ r.thrown = "none" => r.v = Text(buf, v)[pos + 1]
           /\ \A count \in SizeArgs :
                 LET r == substr(v, pos, count)
                     n == Least(count, v.size_ - pos)
                 IN /\ r.thrown = IF pos > v.size_ THEN "out_of_range" ELSE "none"
                    /\ r.thrown = "none" =>
                          /\ r.view.size_ = n
                          /\ Text(buf, r.view) = SubSeq(Text(buf, v), pos + 1, pos + n)
                          /\ n > 0 => r.view.data_ = v.data_ + pos

\* substr has just thrown; a view of all the buffer yields its tail from
\* position 1 and an empty view from position size(), and throws beyond
AtAndSubstrErrorsWitness ==
    /\ ret.thrown = "out_of_range"
    /\ \E x \in Views :
          /\ view[x] = string_view_string
          /\ substr(view[x], 1, npos).view = string_view_ptr_count(1, BufLen - 1)
          /\ substr(view[x], BufLen, 1).view.size_ = 0
          /\ substr(view[x], BufLen, 1).thrown = "none"
          /\ substr(view[x], BufLen + 1, 0).thrown = "out_of_range"
          /\ at(buf, view[x], BufLen).thrown = "out_of_range"
          /\ at(buf, view[x], BufLen - 1).v = buf[BufLen]

\* every view that lies within the buffer, and the default constructed view
ViewValues ==
    {string_view_default} \cup
        {v \in [data_ : 0..BufLen, size_ : 0..BufLen] : v.data_ + v.size_ <= BufLen}

\* the characters of v at [i, i + sv.size()) are those of sv
MatchesAt(b, v, sv, i) ==
    /\ i + sv.size_ <= v.size_
    /\ \A k \in 1..sv.size_ : Text(b, v)[i + k] = Text(b, sv)[k]

\* C25 as stated: find(sv, pos) returns the smallest index i >= pos at which
\* the characters of the view equal sv, and npos if there is none; an empty
\* needle is found at pos whenever pos <= size(), however it was constructed,
\* and needles that compare equal with operator== give the same result.
FindFirstMatch ==
    \A x, y \in Views, pos \in SizeArgs :
        LET v == view[x]
            sv == view[y]
            hits == {i \in pos..v.size_ : MatchesAt(buf, v, sv, i)}
            r == find(buf, v, sv, pos)
        IN /\ r = IF hits = {} THEN npos ELSE CHOOSE i \in hits : \A j \in hits : i <= j
           /\ (sv.size_ = 0 /\ pos <= v.size_) => r = pos
           /\ \A other \in ViewValues :
                 string_view_eq(buf, sv, other) => find(buf, v, other, pos) = r

\* the largest element of a non-empty set of naturals
Greatest(S) == CHOOSE i \in S : \A j \in S : j <= i

\* C26: rfind(sv, pos) returns the largest index j <= pos with
\* j + sv.size() <= size() at which the characters of the view equal sv, and
\* npos if there is none (in particular when sv.size() > size()); rfind(c, pos)
\* returns the largest index j <= min(pos, size() - 1) with data[j] == c, or
\* npos; both return for every input, the empty view included.
RfindLastMatch ==
    \A x \in Views, pos \in SizeArgs :
        LET v == view[x]
        IN /\ \A y \in Views :
                 LET sv == view[y]
                     hits == {j \in 0..v.size_ : j <= pos /\ MatchesAt(buf, v, sv, j)}
                     r == rfind(buf, v, sv, pos)
                 IN /\ r = IF hits = {} THEN npos ELSE Greatest(hits)
                    /\ sv.size_ > v.size_ => r = npos
           /\ \A c \in Chars :
                 LET hits == {j \in 0..(v.size_ - 1) : j <= pos /\ Text(buf, v)[j + 1] = c}
                     r == rfind_char(buf, v, c, pos)
                 IN r = IF hits = {} THEN npos ELSE Greatest(hits)

\* a needle occurs at two positions of a view: rfind from npos returns the
\* later one, rfind from the earlier position the earlier one; a needle longer
\* than the view and a search of the empty view return npos
RfindLastMatchWitness ==
    \E x, y \in Views :
        /\ view[y].size_ > 0
        /\ \E i, j \in 0..BufLen :
              /\ i < j
              /\ MatchesAt(buf, view[x], view[y], i)
              /\ MatchesAt(buf, view[x], view[y], j)
              /\ rfind(buf, view[x], view[y], npos) = j
              /\ rfind(buf, view[x], view[y], i) = i
              /\ rfind_char(buf, view[x], buf[view[x].data_ + i + 1], i) = i
        /\ rfind(buf, view[y], view[x], npos) = npos
        /\ \A c \in Chars : rfind_char(buf, string_view_default, c, npos) = npos

\* s comes before t in the lexicographic order of character sequences: at
\* the first position where they differ s has the smaller character, or s is
\* a proper prefix of t
LexLess(s, t) ==
    \E k \in 1..Len(t) :
        /\ k - 1 <= Len(s)
        /\ \A i \in 1..(k - 1) : s[i] = t[i]
        /\ k = Len(s) + 1 \/ s[k] < t[k]

\* the sign of an int
Sign(n) == IF n < 0 THEN -1 ELSE IF n > 0 THEN 1 ELSE 0

\* C27: a.compare(b) is negative, zero or positive according to the
\* lexicographic order of the two character sequences (a proper prefix is
\* smaller); a.compare(b) == 0 iff a == b; the sign of a.compare(b) is the
\* opposite of the sign of b.compare(a); <, <=, >, >= agree with the sign.
CompareThreeWay ==
    \A x, y \in Views :
        LET a == view[x]
            c == view[y]
            r == compare(buf, a, c)
        IN /\ r < 0 <=> LexLess(Text(buf, a), Text(buf, c))
           /\ r > 0 <=> LexLess(Text(buf, c), Text(buf, a))
           /\ r = 0 <=> Text(buf, a) = Text(buf, c)
           /\ r = 0 <=> string_view_eq(buf, a, c)
           /\ string_view_ne(buf, a, c) <=> r # 0
           /\ Sign(r) = 0 - Sign(compare(buf, c, a))
           /\ string_view_lt(buf, a, c) <=> Sign(r) = -1
           /\ string_view_le(buf, a, c) <=> Sign(r) \in {-1, 0}
           /\ string_view_gt(buf, a, c) <=> Sign(r) = 1
           /\ string_view_ge(buf, a, c) <=> Sign(r) \in {0, 1}

\* compare has just returned a negative int; of two views at different
\* places of the buffer one reads as a proper prefix of the other and is the
\* smaller
CompareThreeWayWitness ==
    /\ ret.v < 0
    /\ \E x, y \in Views :
          /\ view[x].data_ # view[y].data_
          /\ view[x].size_ > 0 /\ view[x].size_ < view[y].size_
          /\ SubSeq(Text(buf, view[y]), 1, view[x].size_) = Text(buf, view[x])
          /\ compare(buf, view[x], view[y]) = -1
          /\ compare(buf, view[y], view[x]) = 1
          /\ string_view_lt(buf, view[x], view[y])
          /\ ~string_view_eq(buf, view[x], view[y])

\* the range [data(), data() + size()) of v lies within the buffer (the empty
\* range of a default constructed view lies within every buffer)
InBuffer(v) ==
    IF v.data_ = nullptr
    THEN v.size_ = 0
    ELSE 0 <= v.data_ /\ v.data_ + v.size_ <= BufLen

\* C30: after any sequence of remove_prefix, remove_suffix, substr and swap on
\* views derived from one buffer, every view's range lies within the buffer
\* and size() never wraps around; remove_prefix(n) drops the first
\* min(n, size()) characters and remove_suffix(n) the last min(n, size()), so
\* n > size() yields an empty view.
ViewsStayInBounds ==
    /\ \A x \in Views : InBuffer(view[x])
    /\ \A x \in Views, n \in SizeArgs :
          LET v == view[x]
              m == Least(n, v.size_)
              p == remove_prefix(v, n)
              q == remove_suffix(v, n)
          IN /\ InBuffer(p) /\ InBuffer(q)
             /\ p.size_ = v.size_ - m /\ q.size_ = v.size_ - m
             /\ Text(buf, p) = SubSeq(Text(buf, v), m + 1, v.size_)
             /\ Text(buf, q) = SubSeq(Text(buf, v), 1, v.size_ - m)
             /\ n > v.size_ => p.size_ = 0 /\ q.size_ = 0
             /\ \A count \in SizeArgs :
                   LET r == substr(v, n, count)
                   IN r.thrown = "none" =>
                         InBuffer(r.view) /\ r.view.size_ <= v.size_
    /\ \A x, y \in Views :
          LET w == string_view_swap(view, x, y)
          IN w[x] = view[y] /\ w[y] = view[x] /\ InBuffer(w[x]) /\ InBuffer(w[y])

\* a view that has lost a prefix and does not reach the end of the buffer:
\* removing more than it has, from either end, leaves an empty view within
\* the buffer
ViewsStayInBoundsWitness ==
    \E x \in Views :
        /\ view[x].data_ > 0 /\ view[x].size_ > 0
        /\ view[x].data_ + view[x].size_ < BufLen
        /\ remove_prefix(view[x], view[x].size_ + 1) =
              string_view_ptr_count(view[x].data_ + view[x].size_, 0)
        /\ remove_suffix(view[x], npos) = string_view_ptr_count(view[x].data_, 0)
        /\ remove_prefix(view[x], 1).size_ = view[x].size_ - 1

====
